---- MODULE Spec2Model ----
(***************************************************************************)
(* Model of the report extraction and scoring engine of                    *)
(* openshift-health-dashboard: utils.ParseAsciiDocExecutiveSummary with    *)
(* its helpers (asciidoc_helpers.go), server.parseAsciiDocReport, the      *)
(* upload handler Server.HandleReportUpload, the life cycle of the Server  *)
(* with its readiness probes, and enhancedFetch of the dashboard.          *)
(*                                                                         *)
(* A document is a sequence of lines.  A line is a record of the parts the *)
(* code's string tests look at; every strings.Contains / HasPrefix /       *)
(* regexp test of the source is an operator over that record.              *)
(***************************************************************************)
EXTENDS Integers, Sequences, FiniteSets, TLC

\* lines     : the lines of the document being parsed
\* pc        : the position of the parse, or of the upload handler
\* summary   : the ReportSummary returned by the parser
\* generated : one call of GenerateDescription (arguments and result)
\* upload    : the request, temporary file and response of one upload
\* calls     : the local state of the concurrent parser invocations
\* server    : the Server object, the files Initialize looks at and the last
\*             probe answered by its handler
\* fetch     : one call of enhancedFetch of the dashboard with its retries
VARIABLES lines, pc, summary, generated, upload, calls, server, fetch

vars == <<lines, pc, summary, generated, upload, calls, server, fetch>>

(***************************************************************************)
(* Lines.                                                                  *)
(*   k      : "blank" | "summary" | "heading" | "subheading" | "listing"   *)
(*            | "start" | "end" | "delim" | "header" | "plain"             *)
(*   pipe   : the line begins with "|"                                     *)
(*   name   : the text inside a <<name>> cross reference, "" when absent   *)
(*   text   : free text of the line, "" when absent                       *)
(*   color  : the hex code of a {set:cellbgcolor:#......} tag, "" if none  *)
(*   phrase : a legend phrase following the tag, "" when absent            *)
(*   pct    : the number of an inline "<n>%", -1 when absent               *)
(***************************************************************************)
Red == "#FF0000"
Yellow == "#FEFE20"
LightBlue == "#80E5FF"
Green == "#00FF00"
Gray == "#A6B9BF"

Colors == {Red, Yellow, LightBlue, Green, Gray}

LegendPhrases ==
    { "Indicates Changes Required", "Indicates Changes Recommended",
      "No advise given", "No change required", "Not yet evaluated" }

Special(kind, p) ==
    [k |-> kind, pipe |-> p, name |-> "", text |-> "", color |-> "",
     phrase |-> "", pct |-> -1]

Blank == Special("blank", FALSE)
SummaryHeading == Special("summary", FALSE)
OtherHeading == Special("heading", FALSE)
SubHeading == Special("subheading", FALSE)
BlockDelimiter == Special("listing", FALSE)
ItemStart == Special("start", FALSE)
ItemEnd == Special("end", FALSE)
TableDelim == Special("delim", TRUE)
HeaderRow == Special("header", TRUE)

Plain(p, n, t, c, ph, pc100) ==
    [k |-> "plain", pipe |-> p, name |-> n, text |-> t, color |-> c,
     phrase |-> ph, pct |-> pc100]

Xref(n) == Plain(FALSE, n, "", "", "", -1)
Text(t) == Plain(FALSE, "", t, "", "", -1)
Cell(t) == Plain(TRUE, "", t, "", "", -1)
ColorTag(c) == Plain(TRUE, "", "", c, "", -1)
LegendTag(c, ph) == Plain(TRUE, "", "", c, ph, -1)
ScoreLine(t, n) == Plain(FALSE, "", t, "", "", n)

(***************************************************************************)
(* The text of a line as the sequence of its pieces (concatenation is \o). *)
(* Rest is the line with a leading "|" cut off and the result trimmed.     *)
(***************************************************************************)
Rest(l) ==
    CASE l.k = "blank" -> << >>
      [] l.k = "summary" -> << "= Summary" >>
      [] l.k = "heading" -> << "= Details" >>
      [] l.k = "subheading" -> << "== Findings" >>
      [] l.k = "listing" -> << "====" >>
      [] l.k = "start" -> << "// ------------------------ITEM START" >>
      [] l.k = "end" -> << "// ------------------------ITEM END" >>
      [] l.k = "delim" -> << "===" >>
      [] l.k = "header" ->
           << "*Category*|*Item Evaluated*|*Observed Result*|*Recommendation*" >>
      [] OTHER ->
           (IF l.name = "" THEN << >> ELSE << "<<", l.name, ">>" >>)
           \o (IF l.text = "" THEN << >> ELSE << l.text >>)
           \o (IF l.color = "" THEN << >>
               ELSE << "{set:cellbgcolor:", l.color, "}" >>)
           \o (IF l.phrase = "" THEN << >> ELSE << l.phrase >>)
           \o (IF l.pct < 0 THEN << >> ELSE << ToString(l.pct), "%" >>)

(***************************************************************************)
(* Substrings of the free texts of the model's vocabulary that the code    *)
(* searches for (case-sensitive), and the keywords found in the lower-cased *)
(* text.  A text that is not listed contains only itself.                  *)
(***************************************************************************)
Substrings(t) ==
    CASE t = "*Infrastructure Setup*:" ->
           {t, "Infrastructure Setup", "Infrastructure", "Setup"}
      [] t = "*Policy Governance*:" ->
           {t, "Policy Governance", "Policy", "Governance"}
      [] t = "*Compliance Benchmarking*:" ->
           {t, "Compliance Benchmarking", "Compliance", "Benchmarking"}
      [] t = "*Central Monitoring*:" ->
           {t, "Central Monitoring", "Central", "Monitoring"}
      [] t = "*Build/Deploy Security*:" ->
           {t, "Build/Deploy Security", "Build/Deploy", "Security"}
      [] t = "Infrastructure Setup" -> {t, "Infrastructure", "Setup"}
      [] t = "Monitoring score" -> {t, "Monitoring"}
      [] t = "*Monitoring*:" -> {t, "Monitoring"}
      [] t = "*Description*" -> {t, "Description"}
      [] t = "Cluster Config / Performance" ->
           {t, "Cluster Config", "Performance"}
      [] OTHER -> {t}

LowerKeywords(t) ==
    CASE t \in {"*Infrastructure Setup*:", "Infrastructure Setup"} ->
           {"infrastructure setup", "infrastructure", "setup"}
      [] t = "*Policy Governance*:" ->
           {"policy governance", "policy", "governance"}
      [] t = "*Compliance Benchmarking*:" ->
           {"compliance benchmarking", "compliance", "benchmarking"}
      [] t = "*Central Monitoring*:" ->
           {"central monitoring", "central", "monitoring"}
      [] t = "*Build/Deploy Security*:" ->
           {"build/deploy security", "build/deploy", "security"}
      [] t \in {"Monitoring score", "*Monitoring*:"} -> {"monitoring"}
      [] t = "Security" -> {"security"}
      [] OTHER -> {}

(***************************************************************************)
(* The string tests of the source.                                         *)
(***************************************************************************)
\* strings.TrimSpace(line) == "= Summary"
IsSummaryHeading(l) == l.k = "summary"
\* strings.HasPrefix(strings.TrimSpace(line), "=")
HasPrefixEquals(l) == l.k \in {"summary", "heading", "subheading", "listing"}
\* strings.Contains(line, "= Summary")
ContainsSummary(l) == l.k = "summary"
\* strings.Contains(line, "// ------------------------ITEM START")
ContainsItemStart(l) == l.k = "start"
\* strings.Contains(line, "// ------------------------ITEM END")
ContainsItemEnd(l) == l.k = "end"
\* strings.Contains(line, "|===")
ContainsTableDelim(l) == l.k = "delim"
\* strings.Contains(line, "*Category*")
ContainsCategoryHeader(l) == l.k = "header"
\* strings.Contains(line, "*Item Evaluated*")
ContainsItemEvaluated(l) == l.k = "header"
\* strings.Contains(line, <any of the five legend phrases>)
ContainsLegendPhrase(l) == l.phrase \in LegendPhrases
\* strings.Contains(line, "Description")
ContainsDescription(l) == "Description" \in Substrings(l.text)
\* strings.Contains(line, "{set:cellbgcolor:<c>}")
ContainsColor(l, c) == l.color = c
\* strings.Contains(line, "set:cellbgcolor:") / "{set:cellbgcolor" / "cellbgcolor"
ContainsCellBgColor(l) == l.color # ""
\* strings.HasPrefix(line, "|")
HasPrefixPipe(l) == l.pipe
\* strings.HasPrefix(line, "//")
HasPrefixSlashes(l) == l.k \in {"start", "end"}
\* strings.Contains(line, "<<") && strings.Contains(line, ">>") and the
\* regexp <<([^>]+)>> matches
HasXref(l) == l.name # ""
\* strings.Contains(line, "%")
ContainsPercent(l) == l.pct >= 0
\* strings.HasPrefix(line, "*") || strings.HasPrefix(line, "#")
HasPrefixStarOrHash(l) ==
    /\ ~l.pipe
    /\ l.name = ""
    /\ l.text \in {"*Infrastructure Setup*:", "*Policy Governance*:",
                   "*Compliance Benchmarking*:", "*Central Monitoring*:",
                   "*Build/Deploy Security*:", "*Monitoring*:", "*Description*"}

Min(S) == CHOOSE x \in S : \A y \in S : x <= y

(***************************************************************************)
(* Section locator, repeated at the head of every scanner of the helpers:  *)
(* summaryStartIndex is the first line that is exactly "= Summary" (0 for  *)
(* the source's -1, indices being 1-based here), summaryEndIndex the first *)
(* later line that starts with "=" and does not contain "= Summary", or    *)
(* one past the last line.                                                 *)
(***************************************************************************)
SummaryStartIndex(ls) ==
    LET S == {i \in 1..Len(ls) : IsSummaryHeading(ls[i])}
    IN  IF S = {} THEN 0 ELSE Min(S)

SummaryEndIndex(ls, start) ==
    LET S == {i \in (start + 1)..Len(ls) :
                HasPrefixEquals(ls[i]) /\ ~ContainsSummary(ls[i])}
    IN  IF S = {} THEN Len(ls) + 1 ELSE Min(S)

(***************************************************************************)
(* CountAllStatusItems                                                     *)
(***************************************************************************)
ZeroCounts ==
    [required |-> 0, recommended |-> 0, advisory |-> 0, noChange |-> 0,
     notApplicable |-> 0]

\* mutant: the gray tag is counted as a required change
CountByColor_GrayAsRequired(l, c) ==
    IF ContainsColor(l, Red) \/ ContainsColor(l, Gray)
      THEN [c EXCEPT !.required = @ + 1]
    ELSE IF ContainsColor(l, Yellow) THEN [c EXCEPT !.recommended = @ + 1]
    ELSE IF ContainsColor(l, LightBlue) THEN [c EXCEPT !.advisory = @ + 1]
    ELSE IF ContainsColor(l, Green) THEN [c EXCEPT !.noChange = @ + 1]
    ELSE c

CountByColor(l, c) ==
    IF ContainsColor(l, Red) THEN [c EXCEPT !.required = @ + 1]
    ELSE IF ContainsColor(l, Yellow) THEN [c EXCEPT !.recommended = @ + 1]
    ELSE IF ContainsColor(l, LightBlue) THEN [c EXCEPT !.advisory = @ + 1]
    ELSE IF ContainsColor(l, Green) THEN [c EXCEPT !.noChange = @ + 1]
    ELSE IF ContainsColor(l, Gray) THEN [c EXCEPT !.notApplicable = @ + 1]
    ELSE c

RECURSIVE CountAllScan(_, _, _, _, _, _)
CountAllScan(ls, i, end, inItem, inTable, c) ==
    IF i >= end THEN c
    ELSE LET l == ls[i] IN
      IF ContainsItemStart(l) THEN CountAllScan(ls, i + 1, end, TRUE, inTable, c)
      ELSE IF ContainsItemEnd(l) THEN CountAllScan(ls, i + 1, end, FALSE, inTable, c)
      ELSE IF ContainsTableDelim(l) /\ ~inTable
        THEN CountAllScan(ls, i + 1, end, inItem, TRUE, c)
      ELSE IF ContainsTableDelim(l) /\ inTable THEN c
      ELSE IF inTable /\ (ContainsCategoryHeader(l) \/ ContainsLegendPhrase(l))
        THEN CountAllScan(ls, i + 1, end, inItem, inTable, c)
      ELSE IF (inTable \/ inItem) /\ ~ContainsDescription(l)
        THEN CountAllScan(ls, i + 1, end, inItem, inTable, CountByColor(l, c))
      ELSE CountAllScan(ls, i + 1, end, inItem, inTable, c)

CountAllStatusItems(ls) ==
    LET start == SummaryStartIndex(ls) IN
    IF start = 0 THEN ZeroCounts
    ELSE CountAllScan(ls, start, SummaryEndIndex(ls, start), FALSE, FALSE,
                      ZeroCounts)

(***************************************************************************)
(* CountStatusByCategory: the per-status maps from category to count.  A   *)
(* category key is the text of a "|" cell (a sequence of pieces); a map is *)
(* a function whose domain is the set of keys seen so far.                 *)
(***************************************************************************)
EmptyItemsByCategory ==
    [required |-> << >>, recommended |-> << >>, advisory |-> << >>,
     nochange |-> << >>, notapplicable |-> << >>]

Increment(m, key) ==
    IF key \in DOMAIN m THEN [m EXCEPT ![key] = @ + 1]
    ELSE [x \in DOMAIN m \cup {key} |-> IF x = key THEN 1 ELSE m[x]]

StatusOfColor(l, currentStatus) ==
    IF ContainsColor(l, Red) THEN "required"
    ELSE IF ContainsColor(l, Yellow) THEN "recommended"
    ELSE IF ContainsColor(l, LightBlue) THEN "advisory"
    ELSE IF ContainsColor(l, Green) THEN "nochange"
    ELSE IF ContainsColor(l, Gray) THEN "notapplicable"
    ELSE currentStatus

RECURSIVE CountByCategoryScan(_, _, _, _, _, _, _)
CountByCategoryScan(ls, i, end, inTable, currentCategory, currentStatus, result) ==
    IF i >= end THEN result
    ELSE LET l == ls[i] IN
      IF ContainsTableDelim(l)
        THEN CountByCategoryScan(ls, i + 1, end, ~inTable, currentCategory,
                                 currentStatus, result)
      ELSE IF ~inTable
        THEN CountByCategoryScan(ls, i + 1, end, inTable, currentCategory,
                                 currentStatus, result)
      ELSE IF HasPrefixPipe(l) /\ ~ContainsCellBgColor(l)
        THEN CountByCategoryScan(ls, i + 1, end, inTable, Rest(l),
                                 currentStatus, result)
      ELSE LET status == StatusOfColor(l, currentStatus) IN
        IF currentCategory # << >> /\ status # ""
          THEN IF ContainsLegendPhrase(l)
                 THEN CountByCategoryScan(ls, i + 1, end, inTable,
                                          currentCategory, "", result)
                 ELSE CountByCategoryScan(ls, i + 1, end, inTable,
                        currentCategory, "",
                        [result EXCEPT ![status] = Increment(@, currentCategory)])
          ELSE CountByCategoryScan(ls, i + 1, end, inTable, currentCategory,
                                   status, result)

CountStatusByCategory(ls) ==
    LET start == SummaryStartIndex(ls) IN
    IF start = 0 THEN EmptyItemsByCategory
    ELSE CountByCategoryScan(ls, start, SummaryEndIndex(ls, start), FALSE,
                             << >>, "", EmptyItemsByCategory)

\* strings.Contains(cat, category) for a category key cat
KeyContains(key, category) ==
    \E j \in 1..Len(key) : category \in Substrings(key[j])

RECURSIVE SumOver(_, _)
SumOver(m, keys) ==
    IF keys = {} THEN 0
    ELSE LET k == CHOOSE x \in keys : TRUE
         IN  m[k] + SumOver(m, keys \ {k})

categoryItemCount(items, category) ==
    SumOver(items, {key \in DOMAIN items : KeyContains(key, category)})

(***************************************************************************)
(* CalculateCategoryScore: int(weightedSum / totalItems), 0 for no items.  *)
(***************************************************************************)
WeightedSum(recommended, advisory, noChange) ==
    noChange * 100 + advisory * 80 + recommended * 50

CalculateCategoryScore(categoryItems) ==
    LET totalItems == categoryItems.required + categoryItems.recommended
                      + categoryItems.advisory + categoryItems.nochange
    IN  IF totalItems = 0 THEN 0
        ELSE WeightedSum(categoryItems.recommended, categoryItems.advisory,
                         categoryItems.nochange) \div totalItems

(***************************************************************************)
(* ExtractCategoryScore / ExtractGeneralCategoryScore                      *)
(***************************************************************************)
\* the regexp \*<categoryName>\*:\s+(\d+)% matches the line
ExactScoreMatch(l, categoryName) ==
    /\ l.pct >= 0
    /\ \/ categoryName = "Infrastructure Setup" /\ l.text = "*Infrastructure Setup*:"
       \/ categoryName = "Policy Governance" /\ l.text = "*Policy Governance*:"
       \/ categoryName = "Compliance Benchmarking"
            /\ l.text = "*Compliance Benchmarking*:"
       \/ categoryName = "Central Monitoring" /\ l.text = "*Central Monitoring*:"
       \/ categoryName = "Build/Deploy Security"
            /\ l.text = "*Build/Deploy Security*:"
       \/ categoryName = "Monitoring" /\ l.text = "*Monitoring*:"

\* strings.ToLower of the pieces of strings.Split(categoryName, " ")
SplitLower(categoryName) ==
    CASE categoryName = "Infrastructure Setup" -> {"infrastructure", "setup"}
      [] categoryName = "Policy Governance" -> {"policy", "governance"}
      [] categoryName = "Compliance Benchmarking" -> {"compliance", "benchmarking"}
      [] categoryName = "Central Monitoring" -> {"central", "monitoring"}
      [] categoryName = "Monitoring" -> {"monitoring"}
      [] categoryName = "Build/Deploy Security" -> {"build/deploy", "security"}
      [] OTHER -> {}

ExtractGeneralCategoryScore(ls, keywords) ==
    LET S == {i \in 1..Len(ls) :
                /\ LowerKeywords(ls[i].text) \cap keywords # {}
                /\ ls[i].pct >= 0}
    IN  IF S = {} THEN 0 ELSE ls[Min(S)].pct

ExtractCategoryScore(ls, categoryName) ==
    LET S == {i \in 1..Len(ls) : ExactScoreMatch(ls[i], categoryName)}
    IN  IF S # {} THEN ls[Min(S)].pct
        ELSE ExtractGeneralCategoryScore(ls, SplitLower(categoryName))

(***************************************************************************)
(* ExtractCategoryDescription / GenerateDescription.  A description is the *)
(* sequence of the pieces of its text, << >> for "".                       *)
(***************************************************************************)
Render(l) == (IF l.pipe THEN << "|" >> ELSE << >>) \o Rest(l)

\* the description found after line i: the first of the next nine lines that
\* is not "", does not start with "*" or "#" and holds no "%"
DescriptionAfter(ls, i) ==
    LET S == {j \in (i + 1)..(i + 9) :
                /\ j <= Len(ls)
                /\ Render(ls[j]) # << >>
                /\ ~HasPrefixStarOrHash(ls[j])
                /\ ~ContainsPercent(ls[j])}
    IN  IF S = {} THEN << >> ELSE Render(ls[Min(S)])

ExtractCategoryDescription(ls, categoryName) ==
    LET S == {i \in 1..Len(ls) :
                /\ categoryName \in Substrings(ls[i].text)
                /\ DescriptionAfter(ls, i) # << >>}
    IN  IF S = {} THEN << >> ELSE DescriptionAfter(ls, Min(S))

GenerateDescription(categoryName, score) ==
    IF score >= 90
      THEN << categoryName, " is excellent with best practices in place." >>
    ELSE IF score >= 80
      THEN << categoryName,
              " is well-configured with only minor improvements needed." >>
    ELSE IF score >= 70
      THEN << categoryName,
              " meets most requirements but has some areas that could be improved." >>
    ELSE IF score >= 60
      THEN << categoryName,
              " has several areas that need attention to meet best practices." >>
    ELSE IF score > 0
      THEN << categoryName,
              " requires significant improvements to ensure stability and security." >>
    ELSE << >>

(***************************************************************************)
(* Go slices of strings: a nil slice and an empty slice both have length 0 *)
(* but are different values (nil is serialised as null, empty as []).      *)
(***************************************************************************)
NilSlice == [nil |-> TRUE, elems |-> << >>]
EmptySlice == [nil |-> FALSE, elems |-> << >>]
AppendSlice(s, x) == [nil |-> FALSE, elems |-> Append(s.elems, x)]
LenSlice(s) == Len(s.elems)

(***************************************************************************)
(* ExtractRequiredChanges / ExtractRecommendedChanges /                    *)
(* ExtractAdvisoryActions: the same loop over the ITEM blocks of the       *)
(* Summary section, for the color and legend phrase of the status.         *)
(***************************************************************************)
\* fmt.Sprintf("%s: %s", itemName, observation), or itemName alone
\* mutant: the observation is dropped
FormatItem_NameOnly(itemName, observation) == << itemName >>

FormatItem(itemName, observation) ==
    IF observation # << >> THEN << itemName, ": " >> \o observation
    ELSE << itemName >>

RECURSIVE ExtractItemsScan(_, _, _, _, _, _, _, _, _)
ExtractItemsScan(ls, i, end, color, phrase, inItem, itemName, observation, items) ==
    IF i >= end THEN items
    ELSE LET l == ls[i] IN
      IF ContainsItemStart(l)
        THEN ExtractItemsScan(ls, i + 1, end, color, phrase, TRUE, "", << >>, items)
      ELSE IF ContainsItemEnd(l)
        THEN ExtractItemsScan(ls, i + 1, end, color, phrase, FALSE, itemName,
               observation,
               IF inItem /\ itemName # ""
                 THEN AppendSlice(items, FormatItem(itemName, observation))
                 ELSE items)
      ELSE IF ~inItem
        THEN ExtractItemsScan(ls, i + 1, end, color, phrase, inItem, itemName,
                              observation, items)
      ELSE IF HasXref(l)
        THEN ExtractItemsScan(ls, i + 1, end, color, phrase, inItem, l.name,
                              observation, items)
      ELSE IF /\ itemName # ""
              /\ observation = << >>
              /\ ~HasPrefixSlashes(l)
              /\ ~ContainsCellBgColor(l)
        THEN ExtractItemsScan(ls, i + 1, end, color, phrase, inItem, itemName,
                              Rest(l), items)
      ELSE IF ContainsColor(l, color) /\ l.phrase # phrase
        THEN ExtractItemsScan(ls, i + 1, end, color, phrase, inItem, itemName,
                              observation, items)
      ELSE IF ContainsCellBgColor(l)
        THEN ExtractItemsScan(ls, i + 1, end, color, phrase, FALSE, itemName,
                              observation, items)
      ELSE ExtractItemsScan(ls, i + 1, end, color, phrase, inItem, itemName,
                            observation, items)

ExtractItems(ls, color, phrase) ==
    LET start == SummaryStartIndex(ls) IN
    IF start = 0 THEN NilSlice
    ELSE ExtractItemsScan(ls, start, SummaryEndIndex(ls, start), color, phrase,
                          FALSE, "", << >>, NilSlice)

ExtractRequiredChanges(ls) == ExtractItems(ls, Red, "Indicates Changes Required")

ExtractRecommendedChanges(ls) ==
    ExtractItems(ls, Yellow, "Indicates Changes Recommended")

ExtractAdvisoryActions(ls) == ExtractItems(ls, LightBlue, "No advise given")

(***************************************************************************)
(* CountNoChangeItems                                                      *)
(***************************************************************************)
RECURSIVE CountNoChangeScan(_, _, _, _, _, _)
CountNoChangeScan(ls, i, end, inItem, inTable, count) ==
    IF i >= end THEN count
    ELSE LET l == ls[i] IN
      IF ContainsItemStart(l) THEN CountNoChangeScan(ls, i + 1, end, TRUE, inTable, count)
      ELSE IF ContainsItemEnd(l)
        THEN CountNoChangeScan(ls, i + 1, end, FALSE, inTable, count)
      ELSE IF ContainsTableDelim(l)
        THEN CountNoChangeScan(ls, i + 1, end, inItem, ~inTable, count)
      ELSE IF /\ inTable \/ inItem
              /\ ContainsColor(l, Green)
              /\ l.phrase # "No change required"
        THEN CountNoChangeScan(ls, i + 1, end, inItem, inTable, count + 1)
      ELSE CountNoChangeScan(ls, i + 1, end, inItem, inTable, count)

CountNoChangeItems(ls) ==
    LET start == SummaryStartIndex(ls) IN
    IF start = 0 THEN 0
    ELSE CountNoChangeScan(ls, start, SummaryEndIndex(ls, start), FALSE, FALSE, 0)

(***************************************************************************)
(* ExtractClusterName / ExtractCustomerName: the name captured by the      *)
(* regular expression in the first line it matches, "" when none does.     *)
(***************************************************************************)
\* the capture of ['"]([^'"]+)['"]|cluster\s+([a-zA-Z0-9_-]+) in a line that
\* contains "cluster"
ClusterCapture(l) ==
    CASE l.text = "Health check of cluster prod-01" -> "prod-01"
      [] OTHER -> ""

\* the trimmed capture of conducted.*?([A-Za-z0-9_\s]+)'s in a line that
\* contains "conducted" and "health check"
CustomerCapture(l) ==
    CASE l.text = "Red Hat conducted a health check of Acme's platform" ->
           "a health check of Acme"
      [] OTHER -> ""

ExtractClusterName(ls) ==
    LET S == {i \in 1..Len(ls) : ClusterCapture(ls[i]) # ""}
    IN  IF S = {} THEN "" ELSE ClusterCapture(ls[Min(S)])

ExtractCustomerName(ls) ==
    LET S == {i \in 1..Len(ls) : CustomerCapture(ls[i]) # ""}
    IN  IF S = {} THEN "" ELSE CustomerCapture(ls[Min(S)])

(***************************************************************************)
(* utils.ParseAsciiDocExecutiveSummary, from the split lines on.           *)
(* overallScore is a float64 quotient of two integers: it is kept as the   *)
(* exact fraction num/den (den > 0).                                       *)
(***************************************************************************)
Rat(n, d) == [num |-> n, den |-> d]
RatEq(a, b) == a.num * b.den = b.num * a.den
RatLeq(a, b) == a.num * b.den <= b.num * a.den

\* mutant: required items are left out of the denominator
OverallScoreOf_SkipRequired(required, recommended, advisory, noChange) ==
    LET totalValidItems == recommended + advisory + noChange
    IN  IF totalValidItems > 0
          THEN Rat(noChange * 100 + advisory * 80 + recommended * 50,
                   totalValidItems)
          ELSE Rat(0, 1)

OverallScoreOf(required, recommended, advisory, noChange) ==
    LET totalValidItems == required + recommended + advisory + noChange
    IN  IF totalValidItems > 0
          THEN Rat(WeightedSum(recommended, advisory, noChange), totalValidItems)
          ELSE Rat(0, 1)

\* lines[summaryStartIndex:summaryEndIndex] panics when the bounds are out
\* of order or past the end of the slice
SliceOutOfRange(ls) ==
    LET start == SummaryStartIndex(ls)
    IN  /\ start # 0
        /\ \/ SummaryEndIndex(ls, start) < start
           \/ SummaryEndIndex(ls, start) > Len(ls) + 1

\* the category "items" map handed to CalculateCategoryScore
CategoryItems(categoryItems, category, withRequired) ==
    [required |-> IF withRequired
                    THEN categoryItemCount(categoryItems.required, category)
                    ELSE 0,
     recommended |-> categoryItemCount(categoryItems.recommended, category),
     advisory |-> categoryItemCount(categoryItems.advisory, category),
     nochange |-> categoryItemCount(categoryItems.nochange, category)]

\* "If calculated scores are still 0, try falling back to extracted scores"
ScoreOrExtracted(score, ls, categoryName) ==
    IF score = 0 THEN ExtractCategoryScore(ls, categoryName) ELSE score

\* "Extract or generate category descriptions"
DescriptionOrGenerated(ls, extractName, generateName, score) ==
    LET d == ExtractCategoryDescription(ls, extractName)
    IN  IF d = << >> THEN GenerateDescription(generateName, score) ELSE d

\* fmt.Sprintf("<Status> Item %d", i+1) for i = 0 .. count-1
Placeholders(label, count) ==
    [nil |-> FALSE, elems |-> [i \in 1..count |-> << label, ToString(i) >>]]

\* "If we have no items, use counts to create placeholder items"
ItemsOrPlaceholders(items, label, count) ==
    IF LenSlice(items) = 0 /\ count > 0 THEN Placeholders(label, count) ELSE items

\* the category scores calculated from the per-category counts, in the
\* order the code calculates them: the result field, the substring looked
\* for in the category keys, and whether Required items are counted
CategorySteps ==
    << [field |-> "infra", category |-> "Cluster Config", withRequired |-> TRUE],
       [field |-> "governance", category |-> "Security", withRequired |-> TRUE],
       [field |-> "compliance", category |-> "Performance", withRequired |-> FALSE],
       [field |-> "monitoring", category |-> "Op-Ready", withRequired |-> FALSE],
       [field |-> "build", category |-> "Applications", withRequired |-> FALSE] >>

\* the part of ParseAsciiDocExecutiveSummary after the counts and the
\* calculated category scores are known
AssembleSummary(ls, counts, calculated) ==
    LET scoreInfra == ScoreOrExtracted(calculated.infra, ls, "Infrastructure Setup")
        scoreGovernance ==
            ScoreOrExtracted(calculated.governance, ls, "Policy Governance")
        scoreCompliance ==
            ScoreOrExtracted(calculated.compliance, ls, "Compliance Benchmarking")
        monitoring0 ==
            ScoreOrExtracted(calculated.monitoring, ls, "Central Monitoring")
        scoreMonitoring == ScoreOrExtracted(monitoring0, ls, "Monitoring")
        scoreBuildSecurity ==
            ScoreOrExtracted(calculated.build, ls, "Build/Deploy Security")
    IN  [ err |-> "nil",
          aborted |-> SliceOutOfRange(ls),
          ClusterName |-> ExtractClusterName(ls),
          CustomerName |-> ExtractCustomerName(ls),
          OverallScore |-> OverallScoreOf(counts.required, counts.recommended,
                                          counts.advisory, counts.noChange),
          ScoreInfra |-> scoreInfra,
          ScoreGovernance |-> scoreGovernance,
          ScoreCompliance |-> scoreCompliance,
          ScoreMonitoring |-> scoreMonitoring,
          ScoreBuildSecurity |-> scoreBuildSecurity,
          InfraDescription |->
              DescriptionOrGenerated(ls, "Infrastructure Setup",
                                     "Infrastructure Setup", scoreInfra),
          GovernanceDescription |->
              DescriptionOrGenerated(ls, "Policy Governance", "Policy Governance",
                                     scoreGovernance),
          ComplianceDescription |->
              DescriptionOrGenerated(ls, "Compliance Benchmarking",
                                     "Compliance Benchmarking", scoreCompliance),
          MonitoringDescription |->
              DescriptionOrGenerated(ls, "Central Monitoring", "Monitoring",
                                     scoreMonitoring),
          BuildSecurityDescription |->
              DescriptionOrGenerated(ls, "Build/Deploy Security",
                                     "Build/Deploy Security", scoreBuildSecurity),
          ItemsRequired |->
              ItemsOrPlaceholders(ExtractRequiredChanges(ls), "Required Item ",
                                  counts.required),
          ItemsRecommended |->
              ItemsOrPlaceholders(ExtractRecommendedChanges(ls),
                                  "Recommended Item ", counts.recommended),
          ItemsAdvisory |->
              ItemsOrPlaceholders(ExtractAdvisoryActions(ls), "Advisory Item ",
                                  counts.advisory),
          NoChangeCount |->
              IF counts.noChange = 0 THEN CountNoChangeItems(ls)
              ELSE counts.noChange,
          NotApplicableCount |-> counts.notApplicable ]

ParseAsciiDocExecutiveSummary(ls) ==
    LET categoryItems == CountStatusByCategory(ls)
        Calculated(n) ==
            CalculateCategoryScore(
                CategoryItems(categoryItems, CategorySteps[n].category,
                              CategorySteps[n].withRequired))
    IN  AssembleSummary(ls, CountAllStatusItems(ls),
            [infra |-> Calculated(1), governance |-> Calculated(2),
             compliance |-> Calculated(3), monitoring |-> Calculated(4),
             build |-> Calculated(5)])

(***************************************************************************)
(* server.parseAsciiDocReport and its helpers (server.go).                 *)
(***************************************************************************)
\* the indices j = i-5 .. i+5 the name lookup reads: j >= 0 && j < len(lines)
\* (lines are numbered from 1 here)
\* mutant: the j >= 0 guard is missing
NameWindow_NoLowerGuard(ls, i) == {j \in (i - 5)..(i + 5) : j <= Len(ls)}

NameWindow(ls, i) == {j \in (i - 5)..(i + 5) : j >= 1 /\ j <= Len(ls)}

\* an index outside the slice is read: a run-time panic
WindowOutOfRange(ls, i) == \E j \in NameWindow(ls, i) : j \notin 1..Len(ls)

\* the item text of the color tag at line i: "<name>: <observation>" or
\* "<name>" for the first cross reference in the window, << >> if none
ItemContent(ls, i) ==
    LET J == {j \in NameWindow(ls, i) \cap (1..Len(ls)) : HasXref(ls[j])}
    IN  IF J = {} THEN << >>
        ELSE LET j == Min(J)
                 K == {k \in (j + 1)..(i - 1) :
                         Render(ls[k]) # << >> /\ ~ContainsCellBgColor(ls[k])}
             IN  IF K = {} THEN << ls[j].name >>
                 ELSE << ls[j].name, ": " >> \o Rest(ls[Min(K)])

AppendItem(items, ls, i, label) ==
    LET itemContent == ItemContent(ls, i)
    IN  AppendSlice(items,
            IF itemContent = << >>
              THEN << label, ToString(LenSlice(items) + 1) >>
              ELSE itemContent)

ScanStart ==
    [inTable |-> FALSE, inKey |-> TRUE, aborted |-> FALSE,
     requiredItems |-> NilSlice, recommendedItems |-> NilSlice,
     advisoryItems |-> NilSlice, noChangeCount |-> 0, notApplicableCount |-> 0]

RECURSIVE ReportScan(_, _, _)
ReportScan(ls, i, st) ==
    IF i > Len(ls) THEN st
    ELSE LET l == ls[i] IN
      IF HasPrefixEquals(l) /\ ~ContainsSummary(l) THEN st
      ELSE IF ContainsTableDelim(l)
        THEN IF ~st.inTable THEN ReportScan(ls, i + 1, [st EXCEPT !.inTable = TRUE])
             ELSE [st EXCEPT !.inTable = FALSE]
      ELSE IF ~st.inTable THEN ReportScan(ls, i + 1, st)
      ELSE IF st.inKey /\ ContainsCategoryHeader(l) /\ ContainsItemEvaluated(l)
        THEN ReportScan(ls, i + 1, [st EXCEPT !.inKey = FALSE])
      ELSE IF st.inKey \/ Render(l) = << >> THEN ReportScan(ls, i + 1, st)
      ELSE IF /\ \/ ContainsColor(l, Red) /\ l.phrase # "Indicates Changes Required"
                 \/ ContainsColor(l, Yellow)
                      /\ l.phrase # "Indicates Changes Recommended"
                 \/ ContainsColor(l, LightBlue) /\ l.phrase # "No advise given"
              /\ WindowOutOfRange(ls, i)
        THEN [st EXCEPT !.aborted = TRUE]
      ELSE IF ContainsColor(l, Red) /\ l.phrase # "Indicates Changes Required"
        THEN ReportScan(ls, i + 1,
               [st EXCEPT !.requiredItems = AppendItem(@, ls, i, "Required Item ")])
      ELSE IF ContainsColor(l, Yellow) /\ l.phrase # "Indicates Changes Recommended"
        THEN ReportScan(ls, i + 1,
               [st EXCEPT !.recommendedItems =
                            AppendItem(@, ls, i, "Recommended Item ")])
      ELSE IF ContainsColor(l, LightBlue) /\ l.phrase # "No advise given"
        THEN ReportScan(ls, i + 1,
               [st EXCEPT !.advisoryItems = AppendItem(@, ls, i, "Advisory Item ")])
      ELSE IF ContainsColor(l, Green) /\ l.phrase # "No change required"
        THEN ReportScan(ls, i + 1, [st EXCEPT !.noChangeCount = @ + 1])
      ELSE IF ContainsColor(l, Gray) /\ l.phrase # "No advise given"
        THEN ReportScan(ls, i + 1, [st EXCEPT !.notApplicableCount = @ + 1])
      ELSE ReportScan(ls, i + 1, st)

\* the number captured by Overall\s+Cluster\s+Health:\s+(\d+\.?\d*)% or by
\* Overall Health Score.*?(\d+\.?\d*)%, -1 when the line matches neither
OverallScoreCapture(l, pattern) ==
    IF l.pct >= 0 /\ l.text = pattern THEN l.pct ELSE -1

extractOverallScore(ls) ==
    LET S == {i \in 1..Len(ls) :
                OverallScoreCapture(ls[i], "Overall Cluster Health:") >= 0}
        T == {i \in 1..Len(ls) :
                OverallScoreCapture(ls[i], "Overall Health Score:") >= 0}
    IN  IF S # {} THEN Rat(ls[Min(S)].pct, 1)
        ELSE IF T # {} THEN Rat(ls[Min(T)].pct, 1)
        ELSE Rat(0, 1)

\* strings.ToLower(categoryName)
LowerName(categoryName) ==
    CASE categoryName = "Infrastructure Setup" -> "infrastructure setup"
      [] categoryName = "Policy Governance" -> "policy governance"
      [] categoryName = "Compliance Benchmarking" -> "compliance benchmarking"
      [] categoryName = "Central Monitoring" -> "central monitoring"
      [] categoryName = "Build/Deploy Security" -> "build/deploy security"
      [] OTHER -> ""

extractCategoryScore(ls, categoryName) ==
    LET S == {i \in 1..Len(ls) : ExactScoreMatch(ls[i], categoryName)}
        T == {i \in 1..Len(ls) :
                /\ LowerName(categoryName) \in LowerKeywords(ls[i].text)
                /\ ls[i].pct >= 0}
    IN  IF S # {} THEN ls[Min(S)].pct
        ELSE IF T # {} THEN ls[Min(T)].pct
        ELSE 0

\* the first line after a line naming the category, within nine lines, that
\* is not "", does not start with "*" or "#" and holds no "%": trimmed
extractCategoryDescription(ls, categoryName) ==
    LET D(i) == {j \in (i + 1)..(i + 9) :
                   /\ j <= Len(ls)
                   /\ ls[j].k # "blank"
                   /\ ~HasPrefixStarOrHash(ls[j])
                   /\ ~ContainsPercent(ls[j])}
        S == {i \in 1..Len(ls) :
                categoryName \in Substrings(ls[i].text) /\ D(i) # {}}
    IN  IF S = {} THEN << >> ELSE Render(ls[Min(D(Min(S)))])

extractClusterName(ls) == ExtractClusterName(ls)

extractCustomerName(ls) == ExtractCustomerName(ls)

parseAsciiDocReport(ls) ==
    LET start == SummaryStartIndex(ls)
        st == ReportScan(ls, start, ScanStart)
    IN  IF start = 0
          THEN [ err |-> "nil", aborted |-> FALSE,
                 ClusterName |-> "", CustomerName |-> "",
                 OverallScore |-> Rat(0, 1),
                 ScoreInfra |-> 0, ScoreGovernance |-> 0, ScoreCompliance |-> 0,
                 ScoreMonitoring |-> 0, ScoreBuildSecurity |-> 0,
                 InfraDescription |-> << >>, GovernanceDescription |-> << >>,
                 ComplianceDescription |-> << >>, MonitoringDescription |-> << >>,
                 BuildSecurityDescription |-> << >>,
                 ItemsRequired |-> EmptySlice, ItemsRecommended |-> EmptySlice,
                 ItemsAdvisory |-> EmptySlice,
                 NoChangeCount |-> 0, NotApplicableCount |-> 0 ]
          ELSE [ err |-> "nil", aborted |-> st.aborted,
                 ClusterName |-> extractClusterName(ls),
                 CustomerName |-> extractCustomerName(ls),
                 OverallScore |-> extractOverallScore(ls),
                 ScoreInfra |-> extractCategoryScore(ls, "Infrastructure Setup"),
                 ScoreGovernance |-> extractCategoryScore(ls, "Policy Governance"),
                 ScoreCompliance |->
                     extractCategoryScore(ls, "Compliance Benchmarking"),
                 ScoreMonitoring |-> extractCategoryScore(ls, "Central Monitoring"),
                 ScoreBuildSecurity |->
                     extractCategoryScore(ls, "Build/Deploy Security"),
                 InfraDescription |->
                     extractCategoryDescription(ls, "Infrastructure Setup"),
                 GovernanceDescription |->
                     extractCategoryDescription(ls, "Policy Governance"),
                 ComplianceDescription |->
                     extractCategoryDescription(ls, "Compliance Benchmarking"),
                 MonitoringDescription |->
                     extractCategoryDescription(ls, "Central Monitoring"),
                 BuildSecurityDescription |->
                     extractCategoryDescription(ls, "Build/Deploy Security"),
                 ItemsRequired |-> st.requiredItems,
                 ItemsRecommended |-> st.recommendedItems,
                 ItemsAdvisory |-> st.advisoryItems,
                 NoChangeCount |-> st.noChangeCount,
                 NotApplicableCount |-> 0 ]

(***************************************************************************)
(* Documents: the lines handed to the parsers (strings.Split of the file   *)
(* content, so at least one line).                                         *)
(***************************************************************************)
MaxLines == 3
MaxBlocks == 2
MaxRows == 3
MaxTags == 4
MaxMixedTags == 2
MaxBlockTags == 2
MaxObservations == 2
MaxScoredRows == 1

SeqsUpTo(S, n) == UNION {[1..m -> S] : m \in 0..n}

RECURSIVE Flatten(_)
Flatten(ss) == IF ss = << >> THEN << >> ELSE Head(ss) \o Flatten(Tail(ss))

\* any lines in any order
LineAlphabet ==
    { Blank, SummaryHeading, OtherHeading, ItemStart, ItemEnd, TableDelim,
      HeaderRow, Cell("Cluster Config"), Xref("KubeadminUser"),
      Text("kubeadmin account still present"), ColorTag(Red), ColorTag(Green),
      ColorTag(Gray), LegendTag(Red, "Indicates Changes Required"),
      ScoreLine("*Infrastructure Setup*:", 150) }

LineDocuments == SeqsUpTo(LineAlphabet, MaxLines) \ {<< >>}

\* a Summary section of ITEM START / ITEM END blocks
ItemBlock(name, observation, tags) ==
    << ItemStart, Xref(name) >> \o observation \o tags \o << ItemEnd >>

ItemBlocks ==
    { ItemBlock(name, observation, tags) :
        name \in {"KubeadminUser", "ClusterVersion"},
        observation \in {<< >>, << Text("kubeadmin account still present") >>},
        tags \in {<< >>} \cup {<< ColorTag(c) >> : c \in Colors} }

BlockDocuments ==
    { << SummaryHeading >> \o Flatten(bs) : bs \in SeqsUpTo(ItemBlocks, MaxBlocks) }

\* a Summary section holding one table of (category, status) rows
TableRows ==
    { << Cell(category), ColorTag(c) >> :
        category \in {"Cluster Config", "Performance"}, c \in Colors }

TableDocuments ==
    { << SummaryHeading, TableDelim, HeaderRow >> \o Flatten(rs) \o << TableDelim >> :
        rs \in SeqsUpTo(TableRows, MaxRows) }

\* a Summary section holding one table of status cells
TagDocuments ==
    { << SummaryHeading, TableDelim, HeaderRow >> \o ts \o << TableDelim >> :
        ts \in SeqsUpTo({ColorTag(c) : c \in Colors}, MaxTags) }

\* a Summary section holding one ITEM block followed by a table of status
\* cells
MixedDocuments ==
    { << SummaryHeading >> \o block \o << TableDelim, HeaderRow >> \o ts
        \o << TableDelim >> :
        block \in ItemBlocks,
        ts \in SeqsUpTo({ColorTag(c) : c \in {Red, Yellow, Green}}, MaxMixedTags) }

\* a Summary section holding one ITEM block in every arrangement: the name
\* alone on its line or followed by a color tag, several observation lines,
\* several color tags, with and without the ITEM END marker
ArrangementDocuments ==
    { << SummaryHeading, ItemStart, nameLine >> \o observation \o tags \o end :
        nameLine \in { Xref("KubeadminUser"),
                       Plain(TRUE, "KubeadminUser", "", Red, "", -1) },
        observation \in SeqsUpTo({ Text("kubeadmin account still present"),
                                   Text("remove the kubeadmin secret") },
                                 MaxObservations),
        tags \in SeqsUpTo({ColorTag(c) : c \in {Red, Yellow, LightBlue}},
                          MaxBlockTags),
        end \in {<< >>, << ItemEnd >>} }

\* a Summary section of two ITEM blocks with a line between them: a blank
\* line, a sub-heading, a block delimiter or the next top-level heading
SectionDocuments ==
    { << SummaryHeading >> \o ItemBlock("KubeadminUser", << >>, << ColorTag(c) >>)
        \o << between >> \o ItemBlock("ClusterVersion", << >>, << ColorTag(d) >>) :
        c \in Colors, d \in Colors,
        between \in {Blank, SubHeading, BlockDelimiter, OtherHeading} }

\* a Summary section holding one table of (category, status) rows, followed
\* by a line giving the percentage of the category in the text
ScoredTableDocuments ==
    { << SummaryHeading, TableDelim, HeaderRow >> \o Flatten(rs)
        \o << TableDelim, ScoreLine("*Infrastructure Setup*:", pct) >> :
        rs \in SeqsUpTo(TableRows, MaxScoredRows), pct \in {0, 40, 150} }

Documents ==
    LineDocuments \cup BlockDocuments \cup TableDocuments \cup TagDocuments
      \cup MixedDocuments \cup ArrangementDocuments \cup SectionDocuments
      \cup ScoredTableDocuments

(***************************************************************************)
(* The state machine: a document is loaded, then parsed by one of the two  *)
(* parsers.                                                                *)
(***************************************************************************)
NoSummary == [err |-> "none"]

\* the values of the variables a specification does not use
NoGenerated == [categoryName |-> "", score |-> 0, text |-> << >>, done |-> FALSE]
NoUpload == [filename |-> << >>]
NoCalls == << >>
NoServer == [isReady |-> FALSE]
NoFetch == [retries |-> 0]

Init ==
    /\ lines \in Documents
    /\ pc = "loaded"
    /\ summary = NoSummary
    /\ generated = NoGenerated
    /\ upload = NoUpload
    /\ calls = NoCalls
    /\ server = NoServer
    /\ fetch = NoFetch

UtilsParse ==
    /\ pc = "loaded"
    /\ summary' = ParseAsciiDocExecutiveSummary(lines)
    /\ pc' = "utils"
    /\ UNCHANGED <<lines, generated, upload, calls, server, fetch>>

ServerParse ==
    /\ pc = "loaded"
    /\ summary' = parseAsciiDocReport(lines)
    /\ pc' = "server"
    /\ UNCHANGED <<lines, generated, upload, calls, server, fetch>>

Next == UtilsParse \/ ServerParse

Spec == Init /\ [][Next]_vars

(***************************************************************************)
(* GenerateDescription on its own: one call with a category name used at   *)
(* a call site and any score.                                              *)
(***************************************************************************)
MaxScore == 101
MaxNegativeScore == 2

\* the names ParseAsciiDocExecutiveSummary generates descriptions for
GeneratedNames ==
    { "Infrastructure Setup", "Policy Governance", "Compliance Benchmarking",
      "Monitoring", "Build/Deploy Security" }

ScoreInputs == (0 - MaxNegativeScore)..MaxScore

GenerateInit ==
    /\ generated \in [categoryName : GeneratedNames, score : ScoreInputs,
                       text : {<< >>}, done : {FALSE}]
    /\ lines = << >>
    /\ pc = "call"
    /\ summary = NoSummary
    /\ upload = NoUpload
    /\ calls = NoCalls
    /\ server = NoServer
    /\ fetch = NoFetch

Generate ==
    /\ pc = "call"
    /\ generated' =
         [generated EXCEPT
            !.text = GenerateDescription(generated.categoryName, generated.score),
            !.done = TRUE]
    /\ pc' = "returned"
    /\ UNCHANGED <<lines, summary, upload, calls, server, fetch>>

GenerateNext == Generate

GenerateSpec == GenerateInit /\ [][GenerateNext]_vars

(***************************************************************************)
(* Concurrent invocations of ParseAsciiDocExecutiveSummary, one per        *)
(* request.  Every value the function works on is a local of the           *)
(* invocation (the package declares no variable), so a step of invocation  *)
(* p reads and writes calls[p] only.  `for cat, c := range items` visits   *)
(* the keys of a map in an order Go does not fix: every call of            *)
(* categoryItemCount takes any order.                                      *)
(***************************************************************************)
ConcurrentRows == 3

Invocations == {"first", "second"}

\* the orders in which a range loop may visit the keys of map m
Orders(m) ==
    LET n == Cardinality(DOMAIN m)
    IN  {o \in [1..n -> DOMAIN m] : \A i, j \in 1..n : i # j => o[i] # o[j]}

\* mutant: the loop body assigns instead of adding
RangeStep_Assign(count, c) == c

\* count += c
RangeStep(count, c) == count + c

RECURSIVE RangeLoop(_, _, _, _, _)
RangeLoop(items, category, order, i, count) ==
    IF i > Len(order) THEN count
    ELSE RangeLoop(items, category, order, i + 1,
                   IF KeyContains(order[i], category)
                     THEN RangeStep(count, items[order[i]])
                     ELSE count)

\* categoryItemCount with the keys visited in the given order
categoryItemCountInOrder(items, category, order) ==
    RangeLoop(items, category, order, 1, 0)

\* the rows of the tables: two category keys of one reporting category
ConcurrentTableRows ==
    << << Cell("Cluster Config"), ColorTag(Green) >>,
       << Cell("Cluster Config / Performance"), ColorTag(Green) >>,
       << Cell("Cluster Config"), ColorTag(Yellow) >> >>

\* a Summary table of ConcurrentRows rows, any mix of the three (the order
\* of the rows of a table is explored by TableDocuments)
ConcurrentDocuments ==
    { << SummaryHeading, TableDelim, HeaderRow >>
        \o Flatten([i \in 1..ConcurrentRows |-> ConcurrentTableRows[ks[i]]])
        \o << TableDelim >> :
        ks \in { f \in [1..ConcurrentRows -> 1..Len(ConcurrentTableRows)] :
                   \A i \in 1..(ConcurrentRows - 1) : f[i] <= f[i + 1] } }

NoCalculated ==
    [infra |-> 0, governance |-> 0, compliance |-> 0, monitoring |-> 0, build |-> 0]

ConcurrentInit ==
    /\ calls \in [Invocations ->
                    [doc : ConcurrentDocuments, pc : {"count"}, step : {0},
                     counts : {ZeroCounts}, categoryItems : {EmptyItemsByCategory},
                     calculated : {NoCalculated}, out : {NoSummary}]]
    /\ lines = << >>
    /\ pc = "serving"
    /\ summary = NoSummary
    /\ generated = NoGenerated
    /\ upload = NoUpload
    /\ server = NoServer
    /\ fetch = NoFetch

\* required, recommended, advisory, noChange, notApplicable :=
\*     CountAllStatusItems(lines)
Count(p) ==
    /\ calls[p].pc = "count"
    /\ calls' = [calls EXCEPT ![p].counts = CountAllStatusItems(calls[p].doc),
                              ![p].pc = "categorise"]
    /\ UNCHANGED <<lines, pc, summary, generated, upload, server, fetch>>

\* categoryItems := CountStatusByCategory(lines)
Categorise(p) ==
    /\ calls[p].pc = "categorise"
    /\ calls' = [calls EXCEPT
                   ![p].categoryItems = CountStatusByCategory(calls[p].doc),
                   ![p].pc = "score", ![p].step = 1]
    /\ UNCHANGED <<lines, pc, summary, generated, upload, server, fetch>>

\* one of the five blocks that fill an items map with categoryItemCount and
\* hand it to CalculateCategoryScore
ScoreCategory(p) ==
    /\ calls[p].pc = "score"
    /\ LET c == calls[p]
           this == CategorySteps[c.step]
       IN  \E oq \in Orders(c.categoryItems.required),
              oc \in Orders(c.categoryItems.recommended),
              oa \in Orders(c.categoryItems.advisory),
              on \in Orders(c.categoryItems.nochange) :
             LET items ==
                   [required |->
                      IF this.withRequired
                        THEN categoryItemCountInOrder(c.categoryItems.required,
                                                      this.category, oq)
                        ELSE 0,
                    recommended |->
                      categoryItemCountInOrder(c.categoryItems.recommended,
                                               this.category, oc),
                    advisory |->
                      categoryItemCountInOrder(c.categoryItems.advisory,
                                               this.category, oa),
                    nochange |->
                      categoryItemCountInOrder(c.categoryItems.nochange,
                                               this.category, on)]
             IN  calls' =
                   [calls EXCEPT
                      ![p].calculated[this.field] = CalculateCategoryScore(items),
                      ![p].step = IF c.step = Len(CategorySteps) THEN 0 ELSE @ + 1,
                      ![p].pc = IF c.step = Len(CategorySteps) THEN "assemble"
                                ELSE "score"]
    /\ UNCHANGED <<lines, pc, summary, generated, upload, server, fetch>>

\* the score fallbacks, descriptions, item lists and the return
Assemble(p) ==
    /\ calls[p].pc = "assemble"
    /\ calls' = [calls EXCEPT
                   ![p].out = AssembleSummary(calls[p].doc, calls[p].counts,
                                              calls[p].calculated),
                   ![p].pc = "done"]
    /\ UNCHANGED <<lines, pc, summary, generated, upload, server, fetch>>

ConcurrentNext ==
    \E p \in Invocations :
      Count(p) \/ Categorise(p) \/ ScoreCategory(p) \/ Assemble(p)

ConcurrentSpec == ConcurrentInit /\ [][ConcurrentNext]_vars

(***************************************************************************)
(* Server.HandleReportUpload: one upload request, step by step.  A file    *)
(* name is the sequence of its characters.  The calls the handler defers   *)
(* are kept on a stack and run, last deferred first, when it returns.      *)
(***************************************************************************)
\* strings.HasSuffix(s, suffix)
HasSuffix(s, suffix) ==
    /\ Len(s) >= Len(suffix)
    /\ SubSeq(s, Len(s) - Len(suffix) + 1, Len(s)) = suffix

\* strings.Contains(s, sub)
Contains(s, sub) ==
    \E i \in 1..(Len(s) - Len(sub) + 1) : SubSeq(s, i, i + Len(sub) - 1) = sub

AdocSuffix == << ".", "a", "d", "o", "c" >>
AsciidocSuffix == << ".", "a", "s", "c", "i", "i", "d", "o", "c" >>

\* mutant: the extension is looked for anywhere in the name
IsValidAsciiDocFile_Contains(filename) ==
    Contains(filename, AdocSuffix) \/ Contains(filename, AsciidocSuffix)

IsValidAsciiDocFile(filename) ==
    HasSuffix(filename, AdocSuffix) \/ HasSuffix(filename, AsciidocSuffix)

\* the deferred call f, run on the handler's state u
DeferredCall(u, f) ==
    CASE f = "tempFile.Close" ->
           [u EXCEPT !.tempFile = "closed", !.events = Append(@, "close")]
      [] f = "os.Remove" ->
           [u EXCEPT !.tempExists = FALSE, !.events = Append(@, "remove")]
      [] OTHER -> [u EXCEPT !.events = Append(@, f)]

\* mutant: the deferred calls run in the order they were deferred
RECURSIVE RunDeferred_FirstDeferredFirst(_)
RunDeferred_FirstDeferredFirst(u) ==
    IF u.defers = << >> THEN u
    ELSE RunDeferred_FirstDeferredFirst(
           DeferredCall([u EXCEPT !.defers = Tail(@)], Head(u.defers)))

\* the deferred calls run when the handler returns, last deferred first
RECURSIVE RunDeferred(_)
RunDeferred(u) ==
    IF u.defers = << >> THEN u
    ELSE RunDeferred(
           DeferredCall([u EXCEPT !.defers = SubSeq(@, 1, Len(@) - 1)],
                        u.defers[Len(u.defers)]))

\* the handler answers with the status and returns from the named step
Return(u, status, step) ==
    RunDeferred([u EXCEPT !.status = status, !.exit = step])

UploadFilenames ==
    { stem \o ending :
        stem \in { << >>, << "r" >> },
        ending \in { AdocSuffix, AsciidocSuffix, << ".", "t", "x", "t" >>,
                     << "a", "d", "o", "c" >>, AdocSuffix \o << ".", "b" >>,
                     << ".", "A", "D", "O", "C" >>, << >> } }

UploadDocuments ==
    { << Blank >> } \cup { << SummaryHeading >> \o b : b \in ItemBlocks }

UploadInit ==
    /\ lines \in UploadDocuments
    /\ pc = "checkMethod"
    /\ summary = NoSummary
    /\ upload \in [method : {"POST", "OPTIONS", "GET"},
                    filename : UploadFilenames, tempFile : {"none"},
                    tempExists : {FALSE}, tempContent : {<< >>},
                    fileContent : {<< >>}, defers : {<< >>}, events : {<< >>},
                    status : {0}, exit : {""}, parserCalled : {FALSE}]
    /\ generated = NoGenerated
    /\ calls = NoCalls
    /\ server = NoServer
    /\ fetch = NoFetch

\* the preflight OPTIONS request is answered 200, any other method than
\* POST 405
CheckMethod ==
    /\ pc = "checkMethod"
    /\ IF upload.method = "OPTIONS"
         THEN pc' = "returned" /\ upload' = Return(upload, 200, "options")
         ELSE IF upload.method # "POST"
           THEN pc' = "returned" /\ upload' = Return(upload, 405, "checkMethod")
           ELSE pc' = "parseForm" /\ UNCHANGED upload
    /\ UNCHANGED <<lines, summary, generated, calls, server, fetch>>

\* r.ParseMultipartForm(10 << 20)
ParseForm ==
    /\ pc = "parseForm"
    /\ \E ok \in BOOLEAN :
         IF ok THEN pc' = "formFile" /\ UNCHANGED upload
         ELSE pc' = "returned" /\ upload' = Return(upload, 400, "parseForm")
    /\ UNCHANGED <<lines, summary, generated, calls, server, fetch>>

\* r.FormFile("report"); defer file.Close()
FormFile ==
    /\ pc = "formFile"
    /\ \E ok \in BOOLEAN :
         IF ok
           THEN /\ pc' = "checkExtension"
                /\ upload' = [upload EXCEPT !.defers = Append(@, "file.Close")]
           ELSE pc' = "returned" /\ upload' = Return(upload, 400, "formFile")
    /\ UNCHANGED <<lines, summary, generated, calls, server, fetch>>

\* if !utils.IsValidAsciiDocFile(header.Filename)
CheckExtension ==
    /\ pc = "checkExtension"
    /\ IF IsValidAsciiDocFile(upload.filename)
         THEN pc' = "createTemp" /\ UNCHANGED upload
         ELSE pc' = "returned" /\ upload' = Return(upload, 400, "checkExtension")
    /\ UNCHANGED <<lines, summary, generated, calls, server, fetch>>

\* os.CreateTemp; defer os.Remove(tempFile.Name()); defer tempFile.Close()
CreateTemp ==
    /\ pc = "createTemp"
    /\ \E ok \in BOOLEAN :
         IF ok
           THEN /\ pc' = "copy"
                /\ upload' = [upload EXCEPT
                                !.tempFile = "open", !.tempExists = TRUE,
                                !.events = Append(@, "create"),
                                !.defers = @ \o << "os.Remove", "tempFile.Close" >>]
           ELSE pc' = "returned" /\ upload' = Return(upload, 500, "createTemp")
    /\ UNCHANGED <<lines, summary, generated, calls, server, fetch>>

\* io.Copy(tempFile, file); tempFile.Sync()
Copy ==
    /\ pc = "copy"
    /\ \E ok \in BOOLEAN :
         IF ok
           THEN /\ pc' = "readFile"
                /\ upload' = [upload EXCEPT !.tempContent = lines]
           ELSE pc' = "returned" /\ upload' = Return(upload, 500, "copy")
    /\ UNCHANGED <<lines, summary, generated, calls, server, fetch>>

\* os.ReadFile(tempFile.Name())
ReadFile ==
    /\ pc = "readFile"
    /\ \E ok \in BOOLEAN :
         IF ok
           THEN /\ pc' = "parse"
                /\ upload' = [upload EXCEPT !.fileContent = upload.tempContent]
           ELSE pc' = "returned" /\ upload' = Return(upload, 500, "readFile")
    /\ UNCHANGED <<lines, summary, generated, calls, server, fetch>>

\* summary, err := parseAsciiDocReport(string(fileContent)); a panic of the
\* parser unwinds the handler, which answers nothing
CallParser ==
    /\ pc = "parse"
    /\ LET result == parseAsciiDocReport(upload.fileContent)
           called == [upload EXCEPT !.parserCalled = TRUE]
       IN  /\ summary' = result
           /\ IF result.aborted
                THEN pc' = "returned" /\ upload' = Return(called, 0, "panic")
                ELSE IF result.err # "nil"
                  THEN pc' = "returned" /\ upload' = Return(called, 500, "parse")
                  ELSE pc' = "encode" /\ upload' = called
    /\ UNCHANGED <<lines, generated, calls, server, fetch>>

\* encoder.Encode(summary)
Encode ==
    /\ pc = "encode"
    /\ \E ok \in BOOLEAN :
         /\ pc' = "returned"
         /\ upload' = IF ok THEN Return(upload, 200, "done")
                       ELSE Return(upload, 500, "encode")
    /\ UNCHANGED <<lines, summary, generated, calls, server, fetch>>

UploadNext ==
    \/ CheckMethod
    \/ ParseForm
    \/ FormFile
    \/ CheckExtension
    \/ CreateTemp
    \/ Copy
    \/ ReadFile
    \/ CallParser
    \/ Encode

UploadSpec == UploadInit /\ [][UploadNext]_vars

(***************************************************************************)
(* The Server object (server.go): NewServer, Initialize, Start, Shutdown   *)
(* and the two probes of its handler.  The static directory and its        *)
(* index.html are the environment: os.Stat finds a file present, missing   *)
(* (os.IsNotExist) or fails on it with another error.  Start runs in its   *)
(* own goroutine and writes httpServer, Shutdown reads it without any      *)
(* synchronisation: Shutdown may or may not see the written value.         *)
(***************************************************************************)
StatOutcomes == {"present", "missing", "unreadable"}

\* the states of the two files: nothing is found inside a missing directory
Files ==
    { f \in [staticDir : StatOutcomes, index : StatOutcomes] :
        f.staticDir = "missing" => f.index = "missing" }

NoResponse == [path |-> "", status |-> 0, body |-> "", initialized |-> FALSE]

\* s := &Server{config: config}; s.isReady.Store(false); s.setupHandler()
NewServer(files) ==
    [ isReady |-> FALSE,
      httpServer |-> "nil",
      listener |-> "none",
      files |-> files,
      initError |-> "none",
      initialized |-> FALSE,
      response |-> NoResponse ]

\* the error returned by Initialize, "nil" for none
InitializeError(files) ==
    IF files.staticDir = "missing" THEN "static directory does not exist"
    ELSE IF files.index = "missing" THEN "index.html not found in static directory"
    ELSE "nil"

\* mutant: the readiness probe answers ready whatever the flag
ReadyzResponse_AlwaysReady(isReady) == [status |-> 200, body |-> "ready"]

\* the /readyz handler
ReadyzResponse(isReady) ==
    IF isReady THEN [status |-> 200, body |-> "ready"]
    ELSE [status |-> 503, body |-> "not ready"]

\* the /healthz handler
HealthzResponse == [status |-> 200, body |-> "ok"]

ServerInit ==
    /\ server \in {NewServer(f) : f \in Files}
    /\ pc = "created"
    /\ lines = << >>
    /\ summary = NoSummary
    /\ generated = NoGenerated
    /\ upload = NoUpload
    /\ calls = NoCalls
    /\ fetch = NoFetch

Initialize ==
    /\ LET err == InitializeError(server.files)
       IN  server' = IF err = "nil"
                       THEN [server EXCEPT !.isReady = TRUE, !.initError = "nil",
                                           !.initialized = TRUE]
                       ELSE [server EXCEPT !.initError = err]
    /\ UNCHANGED <<lines, pc, summary, generated, upload, calls, fetch>>

\* s.httpServer = &http.Server{...}; return s.httpServer.ListenAndServe()
Start ==
    /\ \E bound \in BOOLEAN :
         server' = [server EXCEPT !.httpServer = "set",
                                  !.listener = IF bound THEN "listening"
                                               ELSE "failed"]
    /\ UNCHANGED <<lines, pc, summary, generated, upload, calls, fetch>>

\* if s.httpServer != nil { return s.httpServer.Shutdown(ctx) }
Shutdown ==
    /\ \E seen \in (IF server.httpServer = "set" THEN {"set", "nil"} ELSE {"nil"}) :
         server' = IF seen = "set" /\ server.listener = "listening"
                     THEN [server EXCEPT !.listener = "closed"]
                     ELSE server
    /\ UNCHANGED <<lines, pc, summary, generated, upload, calls, fetch>>

Readyz ==
    /\ LET r == ReadyzResponse(server.isReady)
       IN  server' = [server EXCEPT !.response =
                        [path |-> "/readyz", status |-> r.status, body |-> r.body,
                         initialized |-> server.initialized]]
    /\ UNCHANGED <<lines, pc, summary, generated, upload, calls, fetch>>

Healthz ==
    /\ server' = [server EXCEPT !.response =
                    [path |-> "/healthz", status |-> HealthzResponse.status,
                     body |-> HealthzResponse.body,
                     initialized |-> server.initialized]]
    /\ UNCHANGED <<lines, pc, summary, generated, upload, calls, fetch>>

\* the environment adds or removes the static files
FilesChange ==
    /\ \E f \in Files \ {server.files} : server' = [server EXCEPT !.files = f]
    /\ UNCHANGED <<lines, pc, summary, generated, upload, calls, fetch>>

ServerNext ==
    \/ Initialize
    \/ Start
    \/ Shutdown
    \/ Readyz
    \/ Healthz
    \/ FilesChange

ServerSpec == ServerInit /\ [][ServerNext]_vars

(***************************************************************************)
(* enhancedFetch(url, options, retries) of the dashboard (api-service.js). *)
(* An attempt is one fetch with its timeout; it ends with the data, with   *)
(* an AbortError raised by the timeout, or with another error: the fetch   *)
(* rejected ("network"), the response was not ok ("http"), or its body     *)
(* could not be read ("body").  A retry is the recursive call made in the  *)
(* catch block after the backoff delay.                                    *)
(***************************************************************************)
MaxRetriesArg == 3

\* retries = 2
DefaultRetries == 2
\* config.api.maxRetries
maxRetries == 2
\* config.api.retryDelay, in milliseconds
retryDelay == 1000

Failures == {"network", "http", "body"}

\* mutant: one more retry is made when no retry is left
ShouldRetry_WhileNotNegative(retries) == retries >= 0

\* if (retries > 0)
ShouldRetry(retries) == retries > 0

\* config.api.retryDelay * Math.pow(2, config.api.maxRetries - retries), a
\* fraction of the delay when retries is more than maxRetries
backoffDelay(retries) ==
    IF maxRetries >= retries
      THEN Rat(retryDelay * 2^(maxRetries - retries), 1)
      ELSE Rat(retryDelay, 2^(retries - maxRetries))

\* the error thrown by the catch block when it does not retry
Thrown(error) == IF error = "abort" THEN "Request timeout" ELSE error

FetchInit ==
    /\ fetch \in { [retries0 |-> r, retries |-> r, attempts |-> 1,
                    outcomes |-> << >>, delays |-> << >>, phase |-> "attempt",
                    result |-> ""] : r \in 0..MaxRetriesArg }
    /\ pc = "called"
    /\ lines = << >>
    /\ summary = NoSummary
    /\ generated = NoGenerated
    /\ upload = NoUpload
    /\ calls = NoCalls
    /\ server = NoServer

\* the response is ok and its body is read: return responseData
AttemptSucceeds ==
    /\ fetch.phase = "attempt"
    /\ fetch' = [fetch EXCEPT !.outcomes = Append(@, "ok"), !.phase = "resolved",
                              !.result = "responseData"]
    /\ UNCHANGED <<lines, pc, summary, generated, upload, calls, server>>

\* the timeout aborts the fetch: the catch block throws "Request timeout"
AttemptTimesOut ==
    /\ fetch.phase = "attempt"
    /\ fetch' = [fetch EXCEPT !.outcomes = Append(@, "abort"),
                              !.phase = "rejected", !.result = Thrown("abort")]
    /\ UNCHANGED <<lines, pc, summary, generated, upload, calls, server>>

\* any other error: wait for the backoff delay when retries are left, throw
\* the error otherwise
AttemptFails ==
    /\ fetch.phase = "attempt"
    /\ \E error \in Failures :
         fetch' = IF ShouldRetry(fetch.retries)
                    THEN [fetch EXCEPT !.outcomes = Append(@, error),
                                       !.delays = Append(@, backoffDelay(fetch.retries)),
                                       !.phase = "backoff"]
                    ELSE [fetch EXCEPT !.outcomes = Append(@, error),
                                       !.phase = "rejected",
                                       !.result = Thrown(error)]
    /\ UNCHANGED <<lines, pc, summary, generated, upload, calls, server>>

\* return enhancedFetch(url, options, retries - 1)
BackoffElapses ==
    /\ fetch.phase = "backoff"
    /\ fetch' = [fetch EXCEPT !.retries = @ - 1, !.attempts = @ + 1,
                              !.phase = "attempt"]
    /\ UNCHANGED <<lines, pc, summary, generated, upload, calls, server>>

FetchNext ==
    \/ AttemptSucceeds
    \/ AttemptTimesOut
    \/ AttemptFails
    \/ BackoffElapses

FetchSpec == FetchInit /\ [][FetchNext]_vars

(***************************************************************************)
(* Properties.                                                             *)
(***************************************************************************)
Parsed == pc \in {"utils", "server"}

\* C1: when the status counts r, c, a, n of the Summary section are not all
\* zero, the overallScore returned by ParseAsciiDocExecutiveSummary is
\* (0*r + 50*c + 80*a + 100*n) / (r + c + a + n).
C1_OverallScoreIsWeightedMean ==
    pc = "utils" =>
      LET c == CountAllStatusItems(lines)
          total == c.required + c.recommended + c.advisory + c.noChange
      IN  total > 0 =>
            summary.OverallScore.num * total
              = (0 * c.required + 50 * c.recommended + 80 * c.advisory
                 + 100 * c.noChange) * summary.OverallScore.den

\* one item of each of the four statuses has been scored 57.5
C1_Witness ==
    /\ pc = "utils"
    /\ LET c == CountAllStatusItems(lines)
       IN  /\ c.required = 1 /\ c.recommended = 1
           /\ c.advisory = 1 /\ c.noChange = 1
    /\ summary.OverallScore.num * 2 = 115 * summary.OverallScore.den

\* a NotApplicable item: a gray status cell that is not a legend row
IsNotApplicableItem(l) == l = ColorTag(Gray)

StripNotApplicable(ls) == SelectSeq(ls, LAMBDA l : ~IsNotApplicableItem(l))

\* C2: the overallScore of a document equals the overallScore of the same
\* document without its NotApplicable (gray) items: adding NotApplicable
\* items to a document does not change the score.
C2_NotApplicableLeavesScore ==
    pc = "utils" =>
      RatEq(summary.OverallScore,
            ParseAsciiDocExecutiveSummary(StripNotApplicable(lines)).OverallScore)

\* a document with two or more counted NotApplicable items and a non-zero
\* score has been parsed
C2_Witness ==
    /\ pc = "utils"
    /\ summary.NotApplicableCount >= 2
    /\ summary.OverallScore.num > 0

\* C3: a parse of any sequence of lines returns a summary and no error, and
\* does not abort.
C3_ParseNeverFails == Parsed => summary.err = "nil" /\ ~summary.aborted

\* the server parser has listed a color tag that has no name near it, found
\* within five lines of the start of the document
C3_Witness ==
    /\ pc = "server"
    /\ LenSlice(summary.ItemsRequired) >= 1
    /\ summary.ItemsRequired.elems[1] = << "Required Item ", "1" >>
    /\ summary.err = "nil"

\* C4: the three item lists of a returned summary are never null.
C4_ItemListsNeverNull ==
    Parsed =>
      /\ ~summary.ItemsRequired.nil
      /\ ~summary.ItemsRecommended.nil
      /\ ~summary.ItemsAdvisory.nil

\* no line of the document carries a data color tag
NoDataColorTag(ls) ==
    \A i \in 1..Len(ls) : ls[i].color \notin Colors \/ ls[i].phrase \in LegendPhrases

\* C5: for a document without any data color tag, overallScore is 0 and the
\* three item lists are empty.
C5_NoItemsMeansZeroAndEmpty ==
    (pc = "utils" /\ NoDataColorTag(lines)) =>
      /\ summary.OverallScore.num = 0
      /\ LenSlice(summary.ItemsRequired) = 0
      /\ LenSlice(summary.ItemsRecommended) = 0
      /\ LenSlice(summary.ItemsAdvisory) = 0

InRange(score) == 0 <= score /\ score <= 100

\* C6: overallScore and the five category scores of a returned summary lie
\* in [0, 100].
C6_ScoresWithinRange ==
    Parsed =>
      /\ RatLeq(Rat(0, 1), summary.OverallScore)
      /\ RatLeq(summary.OverallScore, Rat(100, 1))
      /\ InRange(summary.ScoreInfra)
      /\ InRange(summary.ScoreGovernance)
      /\ InRange(summary.ScoreCompliance)
      /\ InRange(summary.ScoreMonitoring)
      /\ InRange(summary.ScoreBuildSecurity)

\* the documents of the scenario: a Summary section of one block named
\* KubeadminUser, observation "kubeadmin account still present", tagged red,
\* and one block named ClusterVersion tagged green, in either order
KubeadminBlock ==
    ItemBlock("KubeadminUser", << Text("kubeadmin account still present") >>,
              << ColorTag(Red) >>)

ClusterVersionBlocks ==
    { ItemBlock("ClusterVersion", observation, << ColorTag(Green) >>) :
        observation \in {<< >>, << Text("kubeadmin account still present") >>} }

Scenario7Documents ==
    UNION { { << SummaryHeading >> \o KubeadminBlock \o b,
              << SummaryHeading >> \o b \o KubeadminBlock } :
            b \in ClusterVersionBlocks }

DistinctNames(items) ==
    \A i, j \in 1..LenSlice(items) :
      i # j => items.elems[i][1] # items.elems[j][1]

\* C8: no output list holds two entries of the same item name: blocks of the
\* same name and status collapse into one entry.
C8_DeduplicatedByNameAndStatus ==
    pc = "utils" =>
      /\ DistinctNames(summary.ItemsRequired)
      /\ DistinctNames(summary.ItemsRecommended)
      /\ DistinctNames(summary.ItemsAdvisory)

\* the number of data color tags of a color in the document
DataTagCount(ls, color) ==
    Cardinality({i \in 1..Len(ls) :
                   ls[i].color = color /\ ls[i].phrase \notin LegendPhrases})

NonEmptyNames(items) ==
    \A i \in 1..LenSlice(items) : items.elems[i][1] # ""

\* C9: every listed item has a non-empty name and a status resolved from a
\* color tag of its list's color, so a list has no more entries than the
\* document has data tags of that color; a block without a color tag is in
\* no list.
C9_ListedItemsHaveResolvedStatus ==
    pc = "utils" =>
      /\ NonEmptyNames(summary.ItemsRequired)
      /\ NonEmptyNames(summary.ItemsRecommended)
      /\ NonEmptyNames(summary.ItemsAdvisory)
      /\ LenSlice(summary.ItemsRequired) <= DataTagCount(lines, Red)
      /\ LenSlice(summary.ItemsRecommended) <= DataTagCount(lines, Yellow)
      /\ LenSlice(summary.ItemsAdvisory) <= DataTagCount(lines, LightBlue)

\* the formula over the items of a category, Required items included
FormulaScore(ls, category) ==
    LET byCategory == CountStatusByCategory(ls)
        r == categoryItemCount(byCategory.required, category)
        c == categoryItemCount(byCategory.recommended, category)
        a == categoryItemCount(byCategory.advisory, category)
        n == categoryItemCount(byCategory.nochange, category)
    IN  IF r + c + a + n = 0 THEN -1
        ELSE (0 * r + 50 * c + 80 * a + 100 * n) \div (r + c + a + n)

AgreesWithFormula(score, ls, category) ==
    FormulaScore(ls, category) >= 0 => score = FormulaScore(ls, category)

\* C10: each category score is the weighted formula over the items of its
\* category, Required items counting in the denominator, for all five
\* categories.
C10_CategoryScoresUseFormula ==
    pc = "utils" =>
      /\ AgreesWithFormula(summary.ScoreInfra, lines, "Cluster Config")
      /\ AgreesWithFormula(summary.ScoreGovernance, lines, "Security")
      /\ AgreesWithFormula(summary.ScoreCompliance, lines, "Performance")
      /\ AgreesWithFormula(summary.ScoreMonitoring, lines, "Op-Ready")
      /\ AgreesWithFormula(summary.ScoreBuildSecurity, lines, "Applications")

\* no line of the document carries an inline percentage
NoInlinePercent(ls) == \A i \in 1..Len(ls) : ~ContainsPercent(ls[i])

\* no item of the document is mapped to the category
UnmappedCategory(ls, category) == FormulaScore(ls, category) = -1

\* the score the extraction returns when the document holds nothing for a
\* category
NeutralDefault == ExtractGeneralCategoryScore(<< >>, {})

\* a sentence of the generator naming the category
IsGeneratedFor(description, categoryName) ==
    /\ Len(description) = 2
    /\ description[1] = categoryName

\* C11: a category without mapped items, in a document without inline
\* percentages, gets the neutral default score and a generated description
\* naming the category.
C11_UnmappedCategoryGetsDefault ==
    (pc = "utils" /\ NoInlinePercent(lines)) =>
      /\ UnmappedCategory(lines, "Cluster Config") =>
            /\ summary.ScoreInfra = NeutralDefault
            /\ IsGeneratedFor(summary.InfraDescription, "Infrastructure Setup")
      /\ UnmappedCategory(lines, "Security") =>
            /\ summary.ScoreGovernance = NeutralDefault
            /\ IsGeneratedFor(summary.GovernanceDescription, "Policy Governance")
      /\ UnmappedCategory(lines, "Performance") =>
            /\ summary.ScoreCompliance = NeutralDefault
            /\ IsGeneratedFor(summary.ComplianceDescription,
                              "Compliance Benchmarking")
      /\ UnmappedCategory(lines, "Op-Ready") =>
            /\ summary.ScoreMonitoring = NeutralDefault
            /\ IsGeneratedFor(summary.MonitoringDescription, "Monitoring")
      /\ UnmappedCategory(lines, "Applications") =>
            /\ summary.ScoreBuildSecurity = NeutralDefault
            /\ IsGeneratedFor(summary.BuildSecurityDescription,
                              "Build/Deploy Security")

\* C12: the five category descriptions of a returned summary are non-empty.
C12_DescriptionsNeverEmpty ==
    Parsed =>
      /\ summary.InfraDescription # << >>
      /\ summary.GovernanceDescription # << >>
      /\ summary.ComplianceDescription # << >>
      /\ summary.MonitoringDescription # << >>
      /\ summary.BuildSecurityDescription # << >>

\* the sentence of the band a score falls in
BandSentence(score) ==
    IF score >= 90 THEN " is excellent with best practices in place."
    ELSE IF score >= 80
      THEN " is well-configured with only minor improvements needed."
    ELSE IF score >= 70
      THEN " meets most requirements but has some areas that could be improved."
    ELSE IF score >= 60
      THEN " has several areas that need attention to meet best practices."
    ELSE " requires significant improvements to ensure stability and security."

\* C13: for every category name and every integer score, GenerateDescription
\* returns the sentence of the score's band (>= 90, >= 80, >= 70, >= 60,
\* otherwise "requires significant improvements"), naming the category.
C13_GenerateDescriptionIsTotal ==
    generated.done =>
      generated.text = << generated.categoryName, BandSentence(generated.score) >>

\* C14: clusterName and customerName are always populated: when no line
\* matches the cluster / customer pattern they are the literals
\* "OpenShift Cluster" and "Your Company", never the empty string.
C14_NamesAlwaysPopulated ==
    Parsed =>
      /\ summary.ClusterName # ""
      /\ summary.CustomerName # ""
      /\ (\A i \in 1..Len(lines) : ClusterCapture(lines[i]) = "")
            => summary.ClusterName = "OpenShift Cluster"
      /\ (\A i \in 1..Len(lines) : CustomerCapture(lines[i]) = "")
            => summary.CustomerName = "Your Company"

\* C15: notApplicableCount is the number of gray-tagged data cells of the
\* Summary section's table.
C15_NotApplicableCounted ==
    (Parsed /\ lines \in TagDocuments) =>
      summary.NotApplicableCount = DataTagCount(lines, Gray)

\* an entry "<name>: <observation>"
HasNameAndObservation(entry) ==
    /\ Len(entry) >= 3
    /\ entry[1] # ""
    /\ entry[2] = ": "

AllHaveNameAndObservation(items) ==
    \A i \in 1..LenSlice(items) : HasNameAndObservation(items.elems[i])

\* C16: every entry of the three item lists has the form
\* "<name>: <observation>".
C16_EntriesAreNameColonObservation ==
    Parsed =>
      /\ AllHaveNameAndObservation(summary.ItemsRequired)
      /\ AllHaveNameAndObservation(summary.ItemsRecommended)
      /\ AllHaveNameAndObservation(summary.ItemsAdvisory)

\* the document with a Summary heading put in front of it: its Section is
\* the whole of the original document
WholeDocumentSection(ls) == << SummaryHeading >> \o ls

\* C17: without a Summary heading the Section is the entire document: the
\* items, counts and score are those of the whole document taken as the
\* Section.
C17_DegradedModeUsesWholeDocument ==
    (pc = "utils" /\ SummaryStartIndex(lines) = 0) =>
      LET whole == ParseAsciiDocExecutiveSummary(WholeDocumentSection(lines))
      IN  /\ summary.ItemsRequired.elems = whole.ItemsRequired.elems
          /\ summary.ItemsRecommended.elems = whole.ItemsRecommended.elems
          /\ summary.ItemsAdvisory.elems = whole.ItemsAdvisory.elems
          /\ summary.NoChangeCount = whole.NoChangeCount
          /\ summary.NotApplicableCount = whole.NotApplicableCount
          /\ RatEq(summary.OverallScore, whole.OverallScore)

\* C18: every invocation returns what a parse of its document returns when
\* run alone, whatever the other invocation does and in whatever order the
\* maps are iterated; two invocations on the same document return the same.
C18_InvocationsAreIndependent ==
    \A p, q \in Invocations :
      /\ calls[p].pc = "done" =>
            calls[p].out = ParseAsciiDocExecutiveSummary(calls[p].doc)
      /\ (calls[p].pc = "done" /\ calls[q].pc = "done"
            /\ calls[p].doc = calls[q].doc) => calls[p].out = calls[q].out

\* two invocations have returned, one of them for a document whose items of
\* one reporting category are spread over two category keys of a map
C18_Witness ==
    /\ \A p \in Invocations : calls[p].pc = "done"
    /\ \E p, q \in Invocations :
         /\ p # q
         /\ calls[p].doc # calls[q].doc
         /\ Cardinality(DOMAIN calls[p].categoryItems.nochange) = 2
         /\ calls[p].out.ScoreInfra = 83

\* the file name ends in neither ".adoc" nor ".asciidoc"
WrongExtension(filename) ==
    /\ ~HasSuffix(filename, AdocSuffix)
    /\ ~HasSuffix(filename, AsciidocSuffix)

\* C19: for a request whose file name ends in neither .adoc nor .asciidoc
\* no temporary file is ever created and the parser is never called, and
\* the handler's answer to the upload (a POST) is an error.
C19_ExtensionCheckedBeforeParse ==
    WrongExtension(upload.filename) =>
      /\ upload.tempFile = "none"
      /\ ~upload.tempExists
      /\ ~upload.parserCalled
      /\ summary = NoSummary
      /\ (pc = "returned" /\ upload.method = "POST") => upload.status = 400

\* an upload named "r.adoc.b" has been rejected by the extension check
C19_Witness ==
    /\ pc = "returned"
    /\ upload.exit = "checkExtension"
    /\ upload.status = 400
    /\ upload.filename = << "r" >> \o AdocSuffix \o << ".", "b" >>

\* the place of the first event e of a handler's events, 0 when absent
EventIndex(events, e) ==
    LET S == {i \in 1..Len(events) : events[i] = e}
    IN  IF S = {} THEN 0 ELSE Min(S)

\* C20: when the handler has returned after creating the temporary file,
\* the file has been closed and then removed: no exit leaves it behind.
C20_TempFileClosedThenRemoved ==
    (pc = "returned" /\ EventIndex(upload.events, "create") > 0) =>
      /\ upload.tempFile = "closed"
      /\ ~upload.tempExists
      /\ EventIndex(upload.events, "close") > EventIndex(upload.events, "create")
      /\ EventIndex(upload.events, "remove") > EventIndex(upload.events, "close")

\* the handler has returned from a failed JSON encoding, after the parse,
\* with the temporary file removed
C20_Witness ==
    /\ pc = "returned"
    /\ upload.exit = "encode"
    /\ upload.parserCalled
    /\ EventIndex(upload.events, "create") > 0
    /\ ~upload.tempExists

\* C21: the item lists of a summary come from one strategy: when the
\* marker-block strategy finds any item, the three lists are exactly the
\* three lists of that strategy, with no entry from another strategy.
C21_ItemsComeFromOneStrategy ==
    pc = "utils" =>
      LET required == ExtractRequiredChanges(lines)
          recommended == ExtractRecommendedChanges(lines)
          advisory == ExtractAdvisoryActions(lines)
      IN  LenSlice(required) + LenSlice(recommended) + LenSlice(advisory) > 0 =>
            /\ summary.ItemsRequired.elems = required.elems
            /\ summary.ItemsRecommended.elems = recommended.elems
            /\ summary.ItemsAdvisory.elems = advisory.elems

\* what the block of a one-block document yields by the reading rules: the
\* name of its <<name>> token, the first later line that is not empty, not a
\* marker and not a color tag, the color of its first color-tag line
NameIndex(ls) == Min({i \in 1..Len(ls) : HasXref(ls[i])})

FirstObservation(ls) ==
    LET S == {i \in (NameIndex(ls) + 1)..Len(ls) :
                /\ ls[i].k = "plain"
                /\ ~ContainsCellBgColor(ls[i])
                /\ Rest(ls[i]) # << >>}
    IN  IF S = {} THEN << >> ELSE Rest(ls[Min(S)])

FirstTagColor(ls) ==
    LET S == {i \in 1..Len(ls) : ContainsCellBgColor(ls[i])}
    IN  IF S = {} THEN "" ELSE ls[Min(S)].color

HasItemEnd(ls) == \E i \in 1..Len(ls) : ContainsItemEnd(ls[i])

ExpectedItems(ls, color) ==
    IF HasItemEnd(ls) /\ FirstTagColor(ls) = color
      THEN << FormatItem(ls[NameIndex(ls)].name, FirstObservation(ls)) >>
      ELSE << >>

\* C22: a block with a color tag yields one item, in the list of its first
\* color tag whatever tags follow, made of the name and the first
\* observation line; a block without ITEM END yields no item.
C22_BlockReadByFirstTag ==
    (pc = "utils" /\ lines \in ArrangementDocuments /\ FirstTagColor(lines) # "") =>
      /\ ExtractRequiredChanges(lines).elems = ExpectedItems(lines, Red)
      /\ ExtractRecommendedChanges(lines).elems = ExpectedItems(lines, Yellow)
      /\ ExtractAdvisoryActions(lines).elems = ExpectedItems(lines, LightBlue)

\* the end of the Section by the locator's rule: the first line after the
\* Summary heading that is a top-level heading other than Summary, or one
\* past the last line; sub-headings and block delimiters do not end it
TopLevelEndIndex(ls, start) ==
    LET S == {i \in (start + 1)..Len(ls) : ls[i] = OtherHeading}
    IN  IF S = {} THEN Len(ls) + 1 ELSE Min(S)

\* C23: the counts, the score and the marker-block items of a document with
\* a Summary heading are those of the scan over the lines from the heading
\* to the next top-level heading, lines starting with "==" included.
C23_SectionEndsAtTopLevelHeading ==
    (pc = "utils" /\ SummaryStartIndex(lines) # 0) =>
      LET start == SummaryStartIndex(lines)
          end == TopLevelEndIndex(lines, start)
          counts == CountAllScan(lines, start, end, FALSE, FALSE, ZeroCounts)
      IN  /\ CountAllStatusItems(lines) = counts
          /\ RatEq(summary.OverallScore,
                   OverallScoreOf(counts.required, counts.recommended,
                                  counts.advisory, counts.noChange))
          /\ ExtractRequiredChanges(lines) =
               ExtractItemsScan(lines, start, end, Red,
                                "Indicates Changes Required", FALSE, "", << >>,
                                NilSlice)
          /\ ExtractRecommendedChanges(lines) =
               ExtractItemsScan(lines, start, end, Yellow,
                                "Indicates Changes Recommended", FALSE, "", << >>,
                                NilSlice)
          /\ ExtractAdvisoryActions(lines) =
               ExtractItemsScan(lines, start, end, LightBlue, "No advise given",
                                FALSE, "", << >>, NilSlice)

\* the document without its legend rows: the lines holding a color tag
\* followed by a legend phrase
IsLegendRow(l) == ContainsCellBgColor(l) /\ ContainsLegendPhrase(l)

RECURSIVE WithoutLegendRows(_)
WithoutLegendRows(ls) ==
    IF ls = << >> THEN << >>
    ELSE IF IsLegendRow(Head(ls)) THEN WithoutLegendRows(Tail(ls))
    ELSE << Head(ls) >> \o WithoutLegendRows(Tail(ls))

\* C24: legend rows count for nothing: the status counts, the per-category
\* counts, the score and the item lists of a document are those of the
\* document without its legend rows, in a table and in an item block alike.
C24_LegendRowsCountForNothing ==
    pc = "utils" =>
      LET clean == WithoutLegendRows(lines)
          expected == ParseAsciiDocExecutiveSummary(clean)
      IN  /\ CountAllStatusItems(lines) = CountAllStatusItems(clean)
          /\ CountStatusByCategory(lines) = CountStatusByCategory(clean)
          /\ RatEq(summary.OverallScore, expected.OverallScore)
          /\ summary.ItemsRequired.elems = expected.ItemsRequired.elems
          /\ summary.ItemsRecommended.elems = expected.ItemsRecommended.elems
          /\ summary.ItemsAdvisory.elems = expected.ItemsAdvisory.elems
          /\ summary.NoChangeCount = expected.NoChangeCount
          /\ summary.NotApplicableCount = expected.NotApplicableCount

\* the fields of the summary holding the category scores
ScoreField(s, field) ==
    CASE field = "infra" -> s.ScoreInfra
      [] field = "governance" -> s.ScoreGovernance
      [] field = "compliance" -> s.ScoreCompliance
      [] field = "monitoring" -> s.ScoreMonitoring
      [] field = "build" -> s.ScoreBuildSecurity

\* C25: a category with at least one counted item keeps the score computed
\* from its items, a computed 0 included; the inline percentage is used only
\* for a category without counted items.
C25_FallbackOnlyWithoutItems ==
    pc = "utils" =>
      \A n \in 1..Len(CategorySteps) :
        LET step == CategorySteps[n]
            items == CategoryItems(CountStatusByCategory(lines), step.category,
                                   step.withRequired)
        IN  items.required + items.recommended + items.advisory + items.nochange > 0
              => ScoreField(summary, step.field) = CalculateCategoryScore(items)

\* C26: the score and the listed items agree: overallScore is the weighted
\* formula over the lengths of the three item lists and noChangeCount.
C26_ScoreAgreesWithLists ==
    pc = "utils" =>
      RatEq(summary.OverallScore,
            OverallScoreOf(LenSlice(summary.ItemsRequired),
                           LenSlice(summary.ItemsRecommended),
                           LenSlice(summary.ItemsAdvisory),
                           summary.NoChangeCount))

ItemStartCount(ls) == Cardinality({i \in 1..Len(ls) : ContainsItemStart(ls[i])})

\* C27: a block contributes an entry to at most one of the three lists, so
\* the marker-block entries of the three lists together are no more than the
\* blocks of the document, whatever lines the blocks hold.
C27_BlockInAtMostOneList ==
    pc = "utils" =>
      LenSlice(ExtractRequiredChanges(lines))
        + LenSlice(ExtractRecommendedChanges(lines))
        + LenSlice(ExtractAdvisoryActions(lines)) <= ItemStartCount(lines)

\* the sum of the counts of a map from category to count
MapTotal(m) == SumOver(m, DOMAIN m)

\* C28: for each status the per-category counts of CountStatusByCategory add
\* up to the count of CountAllStatusItems.
C28_CategoryCountsAddUp ==
    pc = "utils" =>
      LET byCategory == CountStatusByCategory(lines)
          all == CountAllStatusItems(lines)
      IN  /\ MapTotal(byCategory.required) = all.required
          /\ MapTotal(byCategory.recommended) = all.recommended
          /\ MapTotal(byCategory.advisory) = all.advisory
          /\ MapTotal(byCategory.nochange) = all.noChange
          /\ MapTotal(byCategory.notapplicable) = all.notApplicable

\* C29: the readiness flag is false from NewServer until an Initialize
\* returns nil and true in every state afterwards, Shutdown and failing
\* Initialize calls included; /readyz answers 503 "not ready" before and 200
\* "ready" after; /healthz answers 200 in every state.
C29_ReadyOnceInitialized ==
    /\ server.isReady = server.initialized
    /\ (server.initError \notin {"none", "nil"} /\ ~server.initialized)
         => ~server.isReady
    /\ server.response.path = "/readyz" =>
         IF server.response.initialized
           THEN server.response.status = 200 /\ server.response.body = "ready"
           ELSE server.response.status = 503 /\ server.response.body = "not ready"
    /\ server.response.path = "/healthz" =>
         server.response.status = 200 /\ server.response.body = "ok"

\* a server answering ready after its Shutdown, its last Initialize having
\* failed on files removed since the first
C29_Witness ==
    /\ server.listener = "closed"
    /\ server.initialized
    /\ server.initError = "static directory does not exist"
    /\ server.response.path = "/readyz"
    /\ server.response.status = 200

\* the failures after which a retry was due: the failures other than the
\* timeout met while retries were left
RetriedFailures(f) ==
    {k \in 1..Len(f.outcomes) :
       f.outcomes[k] \in Failures /\ f.retries0 - (k - 1) > 0}

\* C30: a call makes at most retries + 1 attempts (3 by default); every
\* failure other than a timeout met with retries left is followed, after
\* retryDelay * 2^(maxRetries - retries), by one more attempt with one retry
\* less; nothing follows a timeout or a success; with no retry left the last
\* error is thrown.
C30_AtMostRetriesPlusOneAttempts ==
    /\ fetch.attempts <= fetch.retries0 + 1
    /\ fetch.retries0 = DefaultRetries => fetch.attempts <= 3
    /\ fetch.retries = fetch.retries0 - (fetch.attempts - 1)
    /\ Len(fetch.delays) = Cardinality(RetriedFailures(fetch))
    /\ fetch.attempts =
         Len(fetch.delays) + (IF fetch.phase = "backoff" THEN 0 ELSE 1)
    /\ \A k \in 1..Len(fetch.delays) :
         LET left == fetch.retries0 - (k - 1)
         IN  fetch.delays[k].num * 2^left = 1000 * 2^2 * fetch.delays[k].den
    /\ \A k \in 1..Len(fetch.outcomes) :
         fetch.outcomes[k] \in {"ok", "abort"} =>
           k = Len(fetch.outcomes) /\ fetch.phase \in {"resolved", "rejected"}
    /\ fetch.phase = "rejected" =>
         LET last == fetch.outcomes[Len(fetch.outcomes)]
         IN  IF last = "abort" THEN fetch.result = "Request timeout"
             ELSE fetch.retries = 0 /\ fetch.result = last

\* the default call whose three attempts all failed: two retries after 1000
\* and 2000 ms, the last error thrown
C30_Witness ==
    /\ fetch.retries0 = 2
    /\ fetch.attempts = 3
    /\ fetch.outcomes = << "network", "http", "body" >>
    /\ fetch.delays = << Rat(1000, 1), Rat(2000, 1) >>
    /\ fetch.phase = "rejected"
    /\ fetch.result = "body"

====
